---- MODULE Spec2Model ----
(***************************************************************************)
(* helix-rum-enhancer, src/modules/index.js: the event-detection and       *)
(* checkpoint-dispatch pipeline.  The module's mutable state (collector,    *)
(* pending queue, listeners, observers, flags) is the record st; every      *)
(* function of index.js is an operator from st to st, and every callback    *)
(* the browser can deliver is one action.                                   *)
(***************************************************************************)
EXTENDS Integers, Sequences, FiniteSets, TLC

VARIABLES
  enabled,   \* DEFAULT_TRACKING_EVENTS, an ordered sequence of tracker kinds
  rum,       \* window.hlx.rum as destructured at module load (line 24)
  browser,   \* which observer constructors and web-vitals build the browser has
  page,      \* referrer, URL parameters, and the collect URL's origin relation
  dom,       \* the document: block status, intersection, visibility, script
  pc,        \* "load" before initEnhancer() has run, "done" after
  st         \* the mutable state of the module and of window.hlx.rum

vars == <<enabled, rum, browser, page, dom, pc, st>>

----------------------------------------------------------------------------
(* Bounds of the model *)

\* at most this many sampleRUM calls in one behaviour
MaxEmit == 3
\* at most this many live IntersectionObservers
MaxObservers == 3
\* at most this many undelivered MutationRecords
MaxRecords == 2
\* at most this many entries in one PerformanceObserver batch
MaxBatch == 2
\* at most this many resource entries delivered in one behaviour
MaxEntries == 2
\* at most this many leave signals (visibility hidden, pagehide) handled
MaxSignals == 3

----------------------------------------------------------------------------
(* The document *)

Blocks == {"b1"}
\* m0 is outside every block, m1 is inside block b1
Media == {"m0", "m1"}
Forms == {"f1"}
Elements == Blocks \cup Media \cup Forms
\* document order, the order of querySelectorAll results
DocOrder == <<"m0", "b1", "m1", "f1">>
\* the enclosing block of an element ("" when it is in no block)
BlockOf(e) == CASE e = "m1" -> "b1"
                [] e = "f1" -> "b1"
                [] OTHER -> ""

Href == "https://site.example/page"
LocationOrigin == "https://site.example"

\* the elements of S in document order
RECURSIVE InOrder(_, _)
InOrder(S, seq) ==
  IF seq = <<>> THEN <<>>
  ELSE IF Head(seq) \in S THEN <<Head(seq)>> \o InOrder(S, Tail(seq))
       ELSE InOrder(S, Tail(seq))

\* dom.js (not in src/): descriptive strings of a node
targetSelector(e) ==
  CASE e \in Blocks -> ".block"
    [] e \in Media -> "img"
    [] e \in Forms -> "form"
    [] OTHER -> "undefined"
sourceSelector(e) ==
  CASE e = "b1" -> ".hero"
    [] e = "m0" -> "main img"
    [] e = "m1" -> ".hero img"
    [] e = "f1" -> ".hero form"
    [] OTHER -> "undefined"

----------------------------------------------------------------------------
(* Checkpoints and the dispatcher *)

\* data with no fields set; cwv is the set of metric names of data.cwv
NoData == [source |-> "undefined", target |-> "undefined", cwv |-> {}]
Data(source, target) == [source |-> source, target |-> target, cwv |-> {}]

\* a checkpoint as sampleRUM hands it to the collector: (checkpoint, data, t).
\* el and entry are history fields naming the element or the resource entry
\* that caused it; they are not part of the payload.
Checkpoint(ck, data, t, el, entry) ==
  [checkpoint |-> ck, source |-> data.source, target |-> data.target,
   cwv |-> data.cwv, t |-> t, el |-> el, entry |-> entry]

\* navigator.sendBeacon(url, ...): one transport call; typed is TRUE for the
\* same-origin Blob and FALSE for the raw body
sendBeacon(s, c) ==
  [s EXCEPT !.beacons = Append(@,
     [checkpoint |-> c.checkpoint, source |-> c.source, target |-> c.target,
      cwv |-> c.cwv, t |-> c.t, typed |-> page.collectSameOrigin])]

trackCheckpointAlways(s, c) ==
  sendBeacon([s EXCEPT !.dispatched = Append(@, c)], c)

trackCheckpointRetry(s, c) ==
  LET s1 == [s EXCEPT !.dispatched = Append(@, c)]
  IN  IF rum.isSelected THEN sendBeacon(sendBeacon(s1, c), c) ELSE s1

trackCheckpoint(s, c) ==
  LET s1 == [s EXCEPT !.dispatched = Append(@, c)]
  IN  IF rum.isSelected THEN sendBeacon(s1, c) ELSE s1

\* window.hlx.rum.collector(checkpoint, data, t): the queue's push until the
\* dispatcher is installed, trackCheckpoint afterwards
collect(s, c) ==
  IF s.collector = "trackCheckpoint" THEN trackCheckpoint(s, c)
  ELSE [s EXCEPT !.queue = Append(@, c)]

\* sampleRUM(checkpoint, data) of the host page: stamps the time and calls
\* the active collector
sampleRUMFrom(s, ck, data, el, entry) ==
  collect([s EXCEPT !.now = @ + 1], Checkpoint(ck, data, s.now, el, entry))
sampleRUM(s, ck, data) == sampleRUMFrom(s, ck, data, "", 0)

RECURSIVE processQueueLIFO(_)
processQueueLIFO(s) ==
  IF s.queue = <<>> THEN s
  ELSE LET n == Len(s.queue)
       IN processQueueLIFO(trackCheckpoint(
            [s EXCEPT !.queue = SubSeq(@, 1, n - 1)], s.queue[n]))

RECURSIVE processQueue(_)
processQueue(s) ==
  IF s.queue = <<>> THEN s
  ELSE processQueue(trackCheckpoint(
         [s EXCEPT !.queue = Tail(@)], Head(s.queue)))

\* a throw that propagates out of the running function
Throw(s) == [s EXCEPT !.threw = TRUE]

----------------------------------------------------------------------------
(* Click tracker *)

addClickTracking(s) == [s EXCEPT !.listeners = @ \cup {"click"}]

clickListener(s, e) ==
  sampleRUMFrom(s, "click", Data(sourceSelector(e), targetSelector(e)), e, 0)

----------------------------------------------------------------------------
(* Lifecycle tracker *)

Referrers == {"", Href, "https://site.example/other",
              "https://search.example/", "android-app://com.mail/"}
\* whether new URL(name) parses
ValidURL(name) == name # "::malformed"
\* every string document.referrer may be made to hold
AnyReferrer == Referrers \cup {"::malformed"}
\* new URL(u).origin
OriginOf(u) ==
  CASE u = Href -> LocationOrigin
    [] u = "https://site.example/other" -> LocationOrigin
    [] u = "https://search.example/" -> "https://search.example"
    [] OTHER -> "null"
\* PerformanceNavigationTiming.type; "" stands for an unset type
NavTypes == {"", "navigate", "reload", "back_forward", "prerender"}

navigateNoReferrerTest(s, source, type) ==
  LET payload == Data(source, dom.visibilityState)
  IN  IF type = "reload" THEN sampleRUM(s, "reload", payload)
      ELSE IF type # "" /\ type # "navigate" THEN sampleRUM(s, type, payload)
      ELSE IF source # "" /\ LocationOrigin = OriginOf(source)
        THEN sampleRUM(s, "navigate", payload)
      ELSE sampleRUM(s, "enter", payload)

navigateOriginFirst(s, source, type) ==
  LET payload == Data(source, dom.visibilityState)
  IN  IF type = "reload" THEN sampleRUM(s, "reload", payload)
      ELSE IF type # "" /\ type # "navigate" THEN sampleRUM(s, type, payload)
      ELSE IF source # "" /\ LocationOrigin = OriginOf(source)
        THEN sampleRUM(s, "navigate", payload)
      ELSE IF source = Href THEN sampleRUM(s, "reload", payload)
      ELSE sampleRUM(s, "enter", payload)

navigateOriginInverted(s, source, type) ==
  LET payload == Data(source, dom.visibilityState)
  IN  IF type = "reload" \/ source = Href THEN sampleRUM(s, "reload", payload)
      ELSE IF type # "" /\ type # "navigate" THEN sampleRUM(s, type, payload)
      ELSE IF source # "" /\ LocationOrigin # OriginOf(source)
        THEN sampleRUM(s, "navigate", payload)
      ELSE sampleRUM(s, "enter", payload)

\* new URL(source) throws a TypeError on a string that is no URL, and
\* navigate has no try around it
navigate(s, source, type) ==
  LET payload == Data(source, dom.visibilityState)
  IN  IF type = "reload" \/ source = Href THEN sampleRUM(s, "reload", payload)
      ELSE IF type # "" /\ type # "navigate" THEN sampleRUM(s, type, payload)
      ELSE IF source # "" /\ ~ValidURL(source) THEN Throw(s)
      ELSE IF source # "" /\ LocationOrigin = OriginOf(source)
        THEN sampleRUM(s, "navigate", payload)
      ELSE sampleRUM(s, "enter", payload)

\* the PerformanceObserver callback: list.getEntries().map(navigate); an
\* exception of navigate ends the map
RECURSIVE navigationCallback(_, _)
navigationCallback(s, types) ==
  IF types = <<>> \/ s.threw THEN s
  ELSE navigationCallback(navigate(s, page.referrer, Head(types)), Tail(types))

leaveNoGuard(s, eventType, visibilityState) ==
  IF eventType = "visibilitychange" /\ visibilityState # "hidden" THEN s
  ELSE sampleRUM([s EXCEPT !.left = TRUE], "leave", NoData)

\* leave(event), with document.visibilityState as the event finds it.
\* leave.left is unset (falsy) until the first fire: FALSE stands for it
leave(s, eventType, visibilityState) ==
  IF s.left \/ (eventType = "visibilitychange" /\ visibilityState # "hidden")
    THEN s
  ELSE sampleRUM([s EXCEPT !.left = TRUE], "leave", NoData)

addEnterLeaveTracking(s) ==
  IF ~browser.PerformanceObserver THEN Throw(s)
  ELSE [s EXCEPT !.listeners =
          @ \cup {"navigation", "visibilitychange", "pagehide"}]

----------------------------------------------------------------------------
(* Resource tracker *)

\* entry.name of a resource timing entry
ResourceNames == {"https://site.example/nav.plain.html",
                  "https://site.example/styles.css",
                  "https://cdn.example/data.json",
                  "::malformed"}
\* new URL(name).hostname
HostnameOf(name) ==
  IF name = "https://cdn.example/data.json" THEN "cdn.example"
  ELSE "site.example"
LocationHostname == "site.example"
\* new URL(name).pathname.match('.*(\\.plain\\.html$|\\.json|graphql|api)')
PathMatches(name) ==
  name \in {"https://site.example/nav.plain.html",
            "https://cdn.example/data.json"}
\* entry.responseStatus; 0 stands for an absent (or zero) status
Statuses == {0, 200, 304, 404, 500}
\* entry.duration in tenths of a millisecond
Durations == {15}
\* Math.round of a duration given in tenths
Round(d) == (d + 5) \div 10
\* decimal digits of a small natural number, as JSON would print it
NumStr(n) == CASE n = 0 -> "0" [] n = 1 -> "1" [] n = 2 -> "2" [] OTHER -> "3+"

ResourceEntry == [name : ResourceNames, responseStatus : Statuses,
                  duration : Durations]

\* the first filter: status absent or below 400
SuccessStatusUpTo404(e) == e.responseStatus = 0 \/ e.responseStatus <= 404
SuccessStatus(e) == e.responseStatus = 0 \/ e.responseStatus < 400

\* the filter of the second chain: status 404
MissingStatus(e) == e.responseStatus = 404

\* emit ck for the entries of idx, in batch order; base is the number of
\* entries delivered before this batch
RECURSIVE emitEntriesReversed(_, _, _, _, _, _)
emitEntriesReversed(s, ck, entries, idx, i, base) ==
  LET k == Len(entries) + 1 - i
  IN  IF i > Len(entries) THEN s
      ELSE IF k \notin idx
        THEN emitEntriesReversed(s, ck, entries, idx, i + 1, base)
      ELSE LET e == entries[k]
               data == IF ck = "loadresource"
                         THEN Data(e.name, NumStr(Round(e.duration)))
                         ELSE Data(e.name, "undefined")
           IN emitEntriesReversed(sampleRUMFrom(s, ck, data, "", base + k),
                                  ck, entries, idx, i + 1, base)

RECURSIVE emitEntries(_, _, _, _, _, _)
emitEntries(s, ck, entries, idx, i, base) ==
  IF i > Len(entries) THEN s
  ELSE IF i \notin idx THEN emitEntries(s, ck, entries, idx, i + 1, base)
  ELSE LET e == entries[i]
           data == IF ck = "loadresource"
                     THEN Data(e.name, NumStr(Round(e.duration)))
                     ELSE Data(e.name, "undefined")
       IN emitEntries(sampleRUMFrom(s, ck, data, "", base + i),
                      ck, entries, idx, i + 1, base)

\* entries and batchOf are history fields: every entry delivered so far and
\* the number of the callback invocation that delivered it.
\* The PerformanceObserver callback of addLoadResourceTracking.  Each filter
\* runs over the whole array before the next: a name that does not parse
\* throws in the second filter, before any checkpoint is emitted, and the
\* catch ends the callback.
resourceCallback(s, entries) ==
  LET base == Len(s.entries)
      s0 == [s EXCEPT !.entries = @ \o entries,
                      !.batchOf = @ \o [i \in 1..Len(entries) |-> s.batches + 1],
                      !.batches = @ + 1]
      ok == {i \in 1..Len(entries) : SuccessStatus(entries[i])}
      throws == \E i \in ok : ~ValidURL(entries[i].name)
      sameHost == {i \in ok : LocationHostname = HostnameOf(entries[i].name)}
      load == {i \in sameHost : PathMatches(entries[i].name)}
      miss == {i \in 1..Len(entries) : MissingStatus(entries[i])}
  IN  IF throws THEN s0
      ELSE emitEntries(emitEntries(s0, "loadresource", entries, load, 1, base),
                       "missingresource", entries, miss, 1, base)

addLoadResourceTracking(s) ==
  IF ~browser.PerformanceObserver THEN Throw(s)
  ELSE [s EXCEPT !.listeners = @ \cup {"resource"}]

----------------------------------------------------------------------------
(* Content-mutation watcher, visibility tracker, form tracker *)

\* DEFAULT_TRACKING_EVENTS.includes(ck)
Includes(ck) == \E i \in 1..Len(enabled) : enabled[i] = ck

activateBlocksMutationObserverUnguarded(s) ==
  IF ~browser.MutationObserver THEN s
  ELSE [s EXCEPT !.moActive = TRUE, !.moObserveCalls = @ + 1]

activateBlocksMutationObserver(s) ==
  IF ~browser.MutationObserver \/ s.moActive THEN s
  ELSE [s EXCEPT !.moActive = TRUE, !.moObserveCalls = @ + 1]

\* observer.observe(t) for every t of targets, on a new IntersectionObserver
\* for checkpoint: the browser owes each target a first notification
observeAll(s, checkpoint, targets) ==
  IF targets = {} THEN s
  ELSE [s EXCEPT !.observers = Append(@,
          [checkpoint |-> checkpoint, watch |-> [t \in targets |-> "new"]])]

\* the elements under parent ("body" is the whole document)
Under(parent, S) == IF parent = "body" THEN S ELSE {e \in S : BlockOf(e) = parent}
\* element.getAttribute('data-block-status') is set
HasBlockStatus(element) == element \in Blocks /\ dom.blockStatus[element] # ""
\* m.closest('div .block')
InBlock(m) == BlockOf(m) # ""
\* m.closest('div[data-block-status="loaded"]')
InLoadedBlock(m) == BlockOf(m) # "" /\ dom.blockStatus[BlockOf(m)] = "loaded"

addViewBlockTracking(s, element) ==
  IF ~browser.IntersectionObserver THEN s
  ELSE LET blocks == IF HasBlockStatus(element) THEN {element}
                     ELSE {b \in Under(element, Blocks) :
                             dom.blockStatus[b] = "loaded"}
       IN observeAll(activateBlocksMutationObserver(s), "viewblock", blocks)

addViewMediaTracking(s, parent) ==
  IF ~browser.IntersectionObserver THEN s
  ELSE LET media == {m \in Under(parent, Media) :
                       ~InBlock(m) \/ InLoadedBlock(m)}
       IN observeAll(activateBlocksMutationObserver(s), "viewmedia", media)

\* form.removeEventListener('submit', fn) on the form's listener list
removeEventListener(list, fn) == SelectSeq(list, LAMBDA x : x # fn)
\* form.addEventListener('submit', fn): a listener already in the list is
\* not added again
addEventListener(list, fn) ==
  IF \E i \in 1..Len(list) : list[i] = fn THEN list ELSE Append(list, fn)

\* a listener added on every scan with nothing removed and nothing recognised
addFormTrackingAddOnly(s, parent) ==
  LET s1 == activateBlocksMutationObserver(s)
      forms == Under(parent, Forms)
  IN  [s1 EXCEPT !.formListeners =
         [f \in Forms |-> IF f \in forms
                            THEN Append(@[f], "formSubmitListener")
                            ELSE @[f]]]

\* removeEventListener then addEventListener of the one formSubmitListener
addFormTracking(s, parent) ==
  LET s1 == activateBlocksMutationObserver(s)
      forms == Under(parent, Forms)
  IN  [s1 EXCEPT !.formListeners =
         [f \in Forms |->
            IF f \in forms
              THEN addEventListener(
                     removeEventListener(@[f], "formSubmitListener"),
                     "formSubmitListener")
              ELSE @[f]]]

formSubmitListener(s, f) ==
  sampleRUMFrom(s, "formsubmit", Data(sourceSelector(f), targetSelector(f)), f, 0)

\* a submit event on form f runs the listeners of f's list in turn
RECURSIVE submitEvent(_, _, _)
submitEvent(s, f, i) ==
  IF i > Len(s.formListeners[f]) THEN s
  ELSE submitEvent(formSubmitListener(s, f), f, i + 1)

\* { threshold: 0.25 }, in percent
Threshold == 25
\* the share of an element within the viewport, in percent
Ratios == {0, 30}
\* entry.isIntersecting: the element's ratio has reached the threshold
Intersecting(e) == dom.ratio[e] >= Threshold

\* the callback of one IntersectionObserver: changed are the watched targets
\* whose intersection state differs from the last one notified
Changed(o) ==
  {t \in DOMAIN o.watch :
     o.watch[t] # (IF Intersecting(t) THEN "in" ELSE "out")}

RECURSIVE emitVisible(_, _, _)
emitVisible(s, checkpoint, targets) ==
  IF targets = <<>> THEN s
  ELSE LET e == Head(targets)
       IN emitVisible(
            sampleRUMFrom(s, checkpoint,
                          Data(sourceSelector(e), targetSelector(e)), e, 0),
            checkpoint, Tail(targets))

RemoveAt(seq, i) == SubSeq(seq, 1, i - 1) \o SubSeq(seq, i + 1, Len(seq))

intersectionCallbackKeepObserving(s, i) ==
  LET o == s.observers[i]
      entries == Changed(o)
      visible == {t \in entries : Intersecting(t)}
      watch == [t \in DOMAIN o.watch |->
                  IF t \in entries
                    THEN (IF Intersecting(t) THEN "in" ELSE "out")
                    ELSE o.watch[t]]
  IN  emitVisible([s EXCEPT !.observers[i].watch = watch], o.checkpoint,
                  InOrder(visible, DocOrder))

intersectionCallback(s, i) ==
  LET o == s.observers[i]
      entries == Changed(o)
      visible == {t \in entries : Intersecting(t)}
      \* observer.unobserve(entry.target) for the visible ones
      rest == DOMAIN o.watch \ visible
      watch == [t \in rest |-> IF t \in entries THEN "out" ELSE o.watch[t]]
      s1 == IF rest = {}
              THEN [s EXCEPT !.observers = RemoveAt(@, i)]
              ELSE [s EXCEPT !.observers[i].watch = watch]
  IN  emitVisible(s1, o.checkpoint, InOrder(visible, DocOrder))

addObserverUnchecked(s, ck, tracked) == tracked

\* addObserver(ck, fn, block): tracked is the state fn(block) leads to
addObserver(s, ck, tracked) == IF Includes(ck) THEN tracked ELSE s

RECURSIVE mutationsCallback(_, _)
mutationsCallback(s, mutations) ==
  IF mutations = <<>> THEN s
  ELSE LET m == Head(mutations)
           s1 == addObserver(s, "form", addFormTracking(s, m))
           s2 == addObserver(s1, "viewblock", addViewBlockTracking(s1, m))
           s3 == addObserver(s2, "viewmedia", addViewMediaTracking(s2, m))
       IN IF dom.blockStatus[m] = "loaded"
            THEN mutationsCallback(s3, Tail(mutations))
            ELSE mutationsCallback(s, Tail(mutations))

----------------------------------------------------------------------------
(* Web-vitals adapter *)

Metrics == <<"FID", "INP", "TTFB", "CLS", "LCP">>

addCWVTracking(s) == [s EXCEPT !.listeners = @ \cup {"cwvTimer"}]

cwvTimerAlwaysInject(s) ==
  [s EXCEPT !.listeners = @ \ {"cwvTimer"}, !.cwv = "injected"]

\* the timer callback: nothing when the page already carries the script
\* (dom.cwvScript), else the script is appended and its load awaited
cwvTimer(s) ==
  LET s1 == [s EXCEPT !.listeners = @ \ {"cwvTimer"}]
  IN  IF dom.cwvScript THEN s1 ELSE [s1 EXCEPT !.cwv = "injected"]

MetricSet == {Metrics[i] : i \in 1..Len(Metrics)}
\* window.webVitals when the script has loaded: whether the global is
\* defined, and the metrics m for which webVitals['on' + m] is a function
WebVitalsBuilds ==
  {[defined |-> TRUE, fns |-> MetricSet],
   [defined |-> TRUE, fns |-> MetricSet \ {"FID"}],
   [defined |-> FALSE, fns |-> {}]}

\* script.onload: storeCWV is registered with every on<metric> that is a
\* function; reading a property of an undefined webVitals throws, and onload
\* runs outside the try of the timer callback
scriptOnload(s) ==
  LET s1 == [s EXCEPT !.cwv = "reporting"]
  IN  IF ~browser.webVitals.defined THEN Throw(s1)
      ELSE [s1 EXCEPT !.metrics =
              {Metrics[i] : i \in {j \in 1..Len(Metrics) :
                                     Metrics[j] \in browser.webVitals.fns}}]

\* elements outside blocks, media and forms, for which dom.js resolves no
\* source; "null" stands for an LCP entry whose element is null
Plain == {"main", "p0"}
\* element.outerHTML
outerHTML(e) ==
  CASE e = "main" -> "<main name=\"main\">"
    [] e = "p0" -> "<p class=\"intro\">Welcome to the site</p>"
    [] e \in Media -> "<img src=\"/media.png\">"
    [] OTHER -> "<div>"
\* html.slice(0, 30): markup of up to 30 characters is kept whole
Slice30(html) ==
  CASE html = "<p class=\"intro\">Welcome to the site</p>" ->
         "<p class=\"intro\">Welcome to th"
    [] OTHER -> html

\* storeCWV(measurement): element is the element of the last LCP entry,
\* "null" when that entry has no element, or "" when the measurement has no
\* entries.  source falls back to the start of the markup when
\* sourceSelector resolves nothing
storeCWV(s, name, element) ==
  LET sel == sourceSelector(element)
      source == IF sel # "undefined" THEN sel
                ELSE IF element = "null" THEN "null"
                ELSE Slice30(outerHTML(element))
      data == IF name = "LCP" /\ element # ""
                THEN [source |-> source,
                      target |-> targetSelector(element), cwv |-> {name}]
                ELSE [source |-> "undefined", target |-> "undefined",
                      cwv |-> {name}]
  IN  sampleRUMFrom(s, "cwv", data,
                    IF element = "null" THEN "" ELSE element, 0)

----------------------------------------------------------------------------
(* Configuration and initialisation *)

\* defaults.js (not in src/): the tracker kinds in their default order;
\* "video" has no entry in trackingFunctions
AllKinds == <<"click", "cwv", "form", "enterleave", "viewblock", "viewmedia",
              "loadresource", "utm", "paid", "email", "consent", "video">>
KindSet == {AllKinds[i] : i \in 1..Len(AllKinds)}
ConfigOf(S) == SelectSeq(AllKinds, LAMBDA k : k \in S)

\* martech.js (not in src/): one 'utm' checkpoint per utm_ parameter of the
\* page URL, emitted during activation
addUTMParametersTracking(s) ==
  IF page.utm THEN sampleRUM(s, "utm", Data("utm_source", "newsletter")) ELSE s

\* martech.js (not in src/): each records one checkpoint during activation
\* when the page gives it something to report (page.martech): a consent
\* banner, an ads click id, an email campaign token
addCookieConsentTracking(s) ==
  IF "consent" \in page.martech
    THEN sampleRUM(s, "consent", Data("onetrust", "show")) ELSE s
addAdsParametersTracking(s) ==
  IF "paid" \in page.martech
    THEN sampleRUM(s, "paid", Data("gclid", "google")) ELSE s
addEmailParameterTracking(s) ==
  IF "email" \in page.martech
    THEN sampleRUM(s, "email", Data("mkt_tok", "marketo")) ELSE s

\* trackingFunctions[ck]()
activate(s, ck) ==
  CASE ck = "click" -> addClickTracking(s)
    [] ck = "cwv" -> addCWVTracking(s)
    [] ck = "form" -> addFormTracking(s, "body")
    [] ck = "enterleave" -> addEnterLeaveTracking(s)
    [] ck = "loadresource" -> addLoadResourceTracking(s)
    [] ck = "utm" -> addUTMParametersTracking(s)
    [] ck = "viewblock" -> addViewBlockTracking(s, "body")
    [] ck = "viewmedia" -> addViewMediaTracking(s, "body")
    [] ck = "consent" -> addCookieConsentTracking(s)
    [] ck = "paid" -> addAdsParametersTracking(s)
    [] ck = "email" -> addEmailParameterTracking(s)
    [] OTHER -> s

\* DEFAULT_TRACKING_EVENTS.filter(...).forEach(...): a throw ends the loop
RECURSIVE activateAll(_, _)
activateAll(s, kinds) ==
  IF kinds = <<>> \/ s.threw THEN s
  ELSE activateAll(activate(s, Head(kinds)), Tail(kinds))

addTrackingFromConfig(s) == activateAll(s, enabled)

\* installedAt and initError are history fields: the time at which the
\* dispatcher became the collector, and whether the catch was taken
initEnhancerNoDrain(s) ==
  IF ~rum.present THEN s
  ELSE LET s1 == addTrackingFromConfig(s)
       IN IF s1.threw THEN [s1 EXCEPT !.threw = FALSE, !.initError = TRUE]
          ELSE [s1 EXCEPT !.collector = "trackCheckpoint",
                          !.installedAt = s1.now]

initEnhancerDrainFirst(s) ==
  IF ~rum.present THEN s
  ELSE LET s1 == addTrackingFromConfig(processQueue(s))
       IN IF s1.threw THEN [s1 EXCEPT !.threw = FALSE, !.initError = TRUE]
          ELSE [s1 EXCEPT !.collector = "trackCheckpoint",
                          !.installedAt = s1.now]

initEnhancer(s) ==
  IF ~rum.present THEN s
  ELSE LET s1 == addTrackingFromConfig(s)
       IN IF s1.threw THEN [s1 EXCEPT !.threw = FALSE, !.initError = TRUE]
          ELSE processQueue([s1 EXCEPT !.collector = "trackCheckpoint",
                                       !.installedAt = s1.now])

----------------------------------------------------------------------------
(* State *)

InitSt ==
  [collector |-> "queue", queue |-> <<>>, dispatched |-> <<>>,
   beacons |-> <<>>, now |-> 0,
   listeners |-> {}, formListeners |-> [f \in Forms |-> <<>>],
   moActive |-> FALSE, moObserveCalls |-> 0, records |-> <<>>,
   observers |-> <<>>, left |-> FALSE, signals |-> 0,
   navTypes |-> <<>>, navVisibility |-> "", rescanned |-> FALSE,
   entries |-> <<>>, cwv |-> "idle", metrics |-> {}, threw |-> FALSE,
   installedAt |-> -1, initError |-> FALSE, escaped |-> FALSE,
   batchOf |-> <<>>, batches |-> 0, measured |-> 0, submits |-> 0]

\* the bounds of the model, as a guard on the state an action leads to
Within(s) ==
  /\ s.now <= MaxEmit
  /\ Len(s.observers) <= MaxObservers
  /\ Len(s.records) <= MaxRecords
  /\ Len(s.entries) <= MaxEntries
  /\ s.signals <= MaxSignals

Config == <<enabled, rum, browser, page>>

\* a callback without a try of its own returns to the browser: an exception
\* it raised is uncaught (escaped is a history field)
Uncaught(s) ==
  IF s.threw THEN [s EXCEPT !.threw = FALSE, !.escaped = TRUE] ELSE s

Run(s) ==
  /\ Within(s)
  /\ st' = s
  /\ UNCHANGED <<Config, dom, pc>>

InitDom(statuses, scripts, visibilities) ==
  /\ dom \in [blockStatus : [Blocks -> statuses],
              ratio : [Blocks \cup Media -> {0}],
              visibilityState : visibilities,
              navPending : {TRUE},
              cwvScript : scripts]
  /\ pc = "load"
  /\ st = InitSt

\* a browser with every observer, and a web-vitals build with all five
\* on<metric> functions
AllBrowser ==
  [MutationObserver |-> TRUE, IntersectionObserver |-> TRUE,
   PerformanceObserver |-> TRUE,
   webVitals |-> [defined |-> TRUE, fns |-> MetricSet]]

----------------------------------------------------------------------------
(* Actions: the module's load and every callback the browser delivers *)

\* checkpoints the host page's own script records through sampleRUM
HostCheckpoints == {"top", "load"}

Batches(S) == UNION {[1..n -> S] : n \in 1..MaxBatch}

\* the host page calls sampleRUM, before or after the enhancer has loaded
HostSampleRUM ==
  /\ rum.present
  /\ \E ck \in HostCheckpoints : Run(sampleRUM(st, ck, NoData))

\* the module is evaluated: initEnhancer() at line 266
InitEnhancer ==
  /\ pc = "load"
  /\ pc' = "done"
  /\ Within(initEnhancer(st))
  /\ st' = initEnhancer(st)
  /\ UNCHANGED <<Config, dom>>

Click ==
  /\ "click" \in st.listeners
  /\ \E e \in Elements : Run(Uncaught(clickListener(st, e)))

\* the user submits a form that has a listener; submits is a history field
Submit ==
  \E f \in Forms :
    /\ st.formListeners[f] # <<>>
    /\ Run(Uncaught([submitEvent(st, f, 1) EXCEPT !.submits = @ + 1]))

\* the buffered navigation entries reach the PerformanceObserver
NavigationEntries ==
  /\ "navigation" \in st.listeners
  /\ dom.navPending
  /\ \E types \in Batches(NavTypes) :
       /\ Within(navigationCallback(st, types))
       /\ st' = [Uncaught(navigationCallback(st, types))
                   EXCEPT !.navTypes = types,
                          !.navVisibility = dom.visibilityState]
  /\ dom' = [dom EXCEPT !.navPending = FALSE]
  /\ UNCHANGED <<Config, pc>>

\* document.visibilityState changes and 'visibilitychange' is dispatched
VisibilityChange ==
  LET v == IF dom.visibilityState = "visible" THEN "hidden" ELSE "visible"
      s == IF "visibilitychange" \in st.listeners
             THEN [leave(st, "visibilitychange", v)
                     EXCEPT !.signals = IF v = "hidden" THEN @ + 1 ELSE @]
             ELSE st
  IN  /\ Within(s)
      /\ st' = s
      /\ dom' = [dom EXCEPT !.visibilityState = v]
      /\ UNCHANGED <<Config, pc>>

PageHide ==
  /\ "pagehide" \in st.listeners
  /\ Run([leave(st, "pagehide", dom.visibilityState)
            EXCEPT !.signals = @ + 1])

ResourceEntries ==
  /\ "resource" \in st.listeners
  /\ \E n \in 1..MaxBatch :
       /\ Len(st.entries) + n <= MaxEntries
       /\ \E entries \in [1..n -> ResourceEntry] :
            Run(resourceCallback(st, entries))

\* an element crosses the observer's threshold, in either direction
Scroll ==
  /\ \E e \in Blocks \cup Media :
       \E r \in Ratios \ {dom.ratio[e]} : dom' = [dom EXCEPT !.ratio[e] = r]
  /\ UNCHANGED <<Config, pc, st>>

IntersectionEntries ==
  \E i \in 1..Len(st.observers) :
    /\ Changed(st.observers[i]) # {}
    /\ Run(intersectionCallback(st, i))

\* the page sets data-block-status on a block; an attached MutationObserver
\* records it
SetBlockStatus ==
  \E b \in Blocks, v \in {"loading", "loaded"} :
    LET s == IF st.moActive THEN [st EXCEPT !.records = Append(@, b)] ELSE st
    IN  /\ Within(s)
        /\ st' = s
        /\ dom' = [dom EXCEPT !.blockStatus[b] = v]
        /\ UNCHANGED <<Config, pc>>

\* a block finishes loading: data-block-status goes from loading to loaded
BlockLoads ==
  \E b \in Blocks :
    LET s == IF st.moActive THEN [st EXCEPT !.records = Append(@, b)] ELSE st
    IN  /\ dom.blockStatus[b] = "loading"
        /\ Within(s)
        /\ st' = s
        /\ dom' = [dom EXCEPT !.blockStatus[b] = "loaded"]
        /\ UNCHANGED <<Config, pc>>

\* rescanned is a history field: a batch with a loaded target was handled
MutationRecords ==
  /\ st.records # <<>>
  /\ Run(Uncaught(mutationsCallback(
           [st EXCEPT !.records = <<>>,
                      !.rescanned = @ \/ \E i \in 1..Len(st.records) :
                                         dom.blockStatus[st.records[i]] = "loaded"],
           st.records)))

CwvTimer ==
  /\ "cwvTimer" \in st.listeners
  /\ Run(cwvTimer(st))

CwvScriptLoad ==
  /\ st.cwv = "injected"
  /\ Run(Uncaught(scriptOnload(st)))

\* the metrics library reports a measurement; only LCP measurements carry
\* entries with an element.  measured is a history field: the number of
\* measurements reported
CwvMeasurement ==
  \E name \in st.metrics :
    \E element \in IF name = "LCP"
                     THEN Media \cup Plain \cup {"null", ""} ELSE {""} :
      Run(Uncaught([storeCWV(st, name, element) EXCEPT !.measured = @ + 1]))

----------------------------------------------------------------------------
(* Specifications *)

\* The dispatcher and the pending queue: host checkpoints, the enhancer's
\* load, and the click and lifecycle listeners as live sources.
Init ==
  /\ enabled \in {ConfigOf(S) : S \in SUBSET {"click", "enterleave", "utm"}}
  /\ rum \in [present : BOOLEAN, isSelected : BOOLEAN]
  /\ browser \in [MutationObserver : {TRUE}, IntersectionObserver : {TRUE},
                  PerformanceObserver : BOOLEAN,
                  webVitals : {AllBrowser.webVitals}]
  /\ page \in [referrer : {""}, utm : BOOLEAN, martech : {{}},
               collectSameOrigin : BOOLEAN]
  /\ InitDom({"loading"}, {FALSE}, {"visible"})

Next ==
  \/ HostSampleRUM
  \/ InitEnhancer
  \/ Click
  \/ VisibilityChange
  \/ PageHide

Spec == Init /\ [][Next]_vars

----------------------------------------------------------------------------
(* Claims about the dispatcher and the pending queue *)

Installed == st.collector = "trackCheckpoint"
\* the positions of dispatched whose checkpoint was recorded before the
\* dispatcher was installed, and so went through the pending queue
QueuedFirst == {i \in 1..Len(st.dispatched) : st.dispatched[i].t < st.installedAt}
\* how often the checkpoint stamped t was passed to trackCheckpoint
TimesDispatched(t) ==
  Cardinality({i \in 1..Len(st.dispatched) : st.dispatched[i].t = t})

\* C3: checkpoints enqueued before the dispatcher is installed are passed to
\* trackCheckpoint in the order in which they were enqueued: of two queued
\* checkpoints, the one stamped earlier is dispatched earlier.
C3_QueueDrainedFIFO ==
  \A i, j \in QueuedFirst :
    i < j => st.dispatched[i].t < st.dispatched[j].t

\* two checkpoints went through the queue and have been drained
C3_Witness ==
  /\ Installed
  /\ Cardinality(QueuedFirst) >= 2

\* C4 as stated: once initEnhancer has run with window.hlx.rum present, the
\* dispatcher is the collector, the queue is empty and every checkpoint
\* recorded so far has been dispatched exactly once.
C4_Original ==
  (pc = "done" /\ rum.present) =>
    /\ Installed
    /\ st.queue = <<>>
    /\ \A t \in 0..(st.now - 1) : TimesDispatched(t) = 1

\* C4 amended: the same, provided no tracker activation raised; when one
\* did, the dispatcher is not installed and nothing is dispatched.
C4_InstalledAndDrained ==
  /\ (pc = "done" /\ rum.present /\ ~st.initError) =>
       /\ Installed
       /\ st.queue = <<>>
       /\ \A t \in 0..(st.now - 1) : TimesDispatched(t) = 1
  /\ st.initError => (~Installed /\ st.dispatched = <<>>)

\* a host checkpoint and a checkpoint emitted during activation were queued
\* and have both been dispatched by initEnhancer
C4_Witness ==
  /\ pc = "done" /\ Installed
  /\ \E i, j \in QueuedFirst :
       /\ st.dispatched[i].checkpoint \in HostCheckpoints
       /\ st.dispatched[j].checkpoint = "utm"

\* C5: with a negative sampling decision no call of trackCheckpoint, live or
\* from draining the queue, reaches sendBeacon.
C5_NoBeaconUnsampled ==
  ~rum.isSelected => st.beacons = <<>>

\* unsampled, one queued and one live checkpoint have been dispatched
C5_Witness ==
  /\ ~rum.isSelected
  /\ QueuedFirst # {}
  /\ \E i \in 1..Len(st.dispatched) : st.dispatched[i].t >= st.installedAt

----------------------------------------------------------------------------
(* The lifecycle tracker on its own: every referrer and navigation type *)

InitLifecycle ==
  /\ enabled \in {ConfigOf({"enterleave"}), ConfigOf({"click", "enterleave"})}
  /\ rum \in [present : {TRUE}, isSelected : BOOLEAN]
  /\ browser = AllBrowser
  /\ page \in [referrer : Referrers, utm : {FALSE}, martech : {{}},
               collectSameOrigin : {TRUE}]
  /\ InitDom({"loading"}, {FALSE}, {"visible", "hidden"})

NextLifecycle ==
  \/ HostSampleRUM
  \/ InitEnhancer
  \/ NavigationEntries
  \/ VisibilityChange
  \/ PageHide

SpecLifecycle == InitLifecycle /\ [][NextLifecycle]_vars

\* every checkpoint recorded so far, in the order of recording
Emitted == st.dispatched \o st.queue
Named(names) == SelectSeq(Emitted, LAMBDA c : c.checkpoint \in names)
EntryNames == {"reload", "navigate", "enter"} \cup (NavTypes \ {""})
\* the checkpoints of the navigation entries, in the order of the entries
EntryCheckpoints == Named(EntryNames)
LeaveCount == Len(Named({"leave"}))

\* C2: with enter/leave tracking active, once a visibility-hidden or pagehide
\* signal has been handled exactly one 'leave' has been recorded, however
\* many signals follow and in whatever order; before the first such signal
\* none has; leave.left is set exactly when 'leave' has been recorded.
C2_LeaveExactlyOnce ==
  /\ LeaveCount <= 1
  /\ (st.signals > 0) = (LeaveCount = 1)
  /\ st.left = (LeaveCount = 1)

\* three leave signals handled, the page visible again, one 'leave' recorded
C2_Witness ==
  /\ st.signals >= 3
  /\ dom.visibilityState = "visible"
  /\ LeaveCount = 1

\* C7: with document.referrer equal to the page URL every navigation entry
\* gives a 'reload' checkpoint and nothing else, whatever its type.
C7_SameURLIsReload ==
  page.referrer = Href =>
    /\ Len(EntryCheckpoints) = Len(st.navTypes)
    /\ \A i \in 1..Len(EntryCheckpoints) :
         EntryCheckpoints[i].checkpoint = "reload"

\* referrer = page URL, entries of type back_forward and navigate delivered
C7_Witness ==
  /\ page.referrer = Href
  /\ \E i, j \in 1..Len(st.navTypes) :
       st.navTypes[i] = "back_forward" /\ st.navTypes[j] = "navigate"
  /\ Len(EntryCheckpoints) = Len(st.navTypes)

SameOrigin(u) == u # "" /\ OriginOf(u) = LocationOrigin

\* C8 as stated: a same-origin referrer with type 'navigate' gives 'navigate'.
C8_Original ==
  \A i \in 1..Len(st.navTypes) :
    (SameOrigin(page.referrer) /\ st.navTypes[i] = "navigate") =>
      /\ i <= Len(EntryCheckpoints)
      /\ EntryCheckpoints[i].checkpoint = "navigate"

\* C8 amended: a same-origin referrer other than the page's own URL, with
\* type 'navigate', gives 'navigate'.
C8_SameOriginIsNavigate ==
  \A i \in 1..Len(st.navTypes) :
    (SameOrigin(page.referrer) /\ page.referrer # Href
       /\ st.navTypes[i] = "navigate") =>
      /\ i <= Len(EntryCheckpoints)
      /\ EntryCheckpoints[i].checkpoint = "navigate"

\* another page of the site is the referrer, a 'navigate' entry was delivered
C8_Witness ==
  /\ page.referrer = "https://site.example/other"
  /\ \E i \in 1..Len(st.navTypes) :
       st.navTypes[i] = "navigate" /\ i <= Len(EntryCheckpoints)

\* the classification rules of the lifecycle tracker, first match wins
Classify(referrer, type) ==
  CASE type = "reload" \/ referrer = Href -> "reload"
    [] ~(type = "reload" \/ referrer = Href)
         /\ type \notin {"", "navigate"} -> type
    [] ~(type = "reload" \/ referrer = Href)
         /\ type \in {"", "navigate"} /\ SameOrigin(referrer) -> "navigate"
    [] OTHER -> "enter"

\* C9: every navigation entry delivered gives exactly one entry checkpoint,
\* named by the first matching rule (reload; the type verbatim; navigate;
\* enter), with data {source: referrer, target: visibility state}.
C9_OneEntryCheckpointPerEntry ==
  /\ Len(EntryCheckpoints) = Len(st.navTypes)
  /\ \A i \in 1..Len(EntryCheckpoints) :
       /\ EntryCheckpoints[i].checkpoint = Classify(page.referrer, st.navTypes[i])
       /\ EntryCheckpoints[i].source = page.referrer
       /\ EntryCheckpoints[i].target = st.navVisibility

\* empty referrer: a 'navigate' entry gave 'enter', a 'prerender' entry gave
\* 'prerender', while the page was hidden
C9_Witness ==
  /\ page.referrer = ""
  /\ st.navTypes = <<"navigate", "prerender">>
  /\ Len(EntryCheckpoints) = 2
  /\ EntryCheckpoints[1].checkpoint = "enter"
  /\ EntryCheckpoints[2].checkpoint = "prerender"
  /\ EntryCheckpoints[1].target = "hidden"

----------------------------------------------------------------------------
(* The resource tracker on its own: every batch of resource entries *)

InitResource ==
  /\ enabled = ConfigOf({"loadresource"})
  /\ rum \in [present : {TRUE}, isSelected : BOOLEAN]
  /\ browser = AllBrowser
  /\ page \in [referrer : {""}, utm : {FALSE}, martech : {{}},
               collectSameOrigin : BOOLEAN]
  /\ InitDom({"loading"}, {FALSE}, {"visible"})

NextResource ==
  \/ InitEnhancer
  \/ ResourceEntries

SpecResource == InitResource /\ [][NextResource]_vars

\* the positions of Emitted whose checkpoint is ck and came from entry n
FromEntry(ck, n) ==
  {i \in 1..Len(Emitted) :
     Emitted[i].checkpoint = ck /\ Emitted[i].entry = n}

\* C10: an entry with status 404 never gives a 'loadresource' checkpoint,
\* and no entry, whatever its status, gives both a 'loadresource' and a
\* 'missingresource' checkpoint.
C10_LoadAndMissingExclusive ==
  \A n \in 1..Len(st.entries) :
    /\ st.entries[n].responseStatus = 404 => FromEntry("loadresource", n) = {}
    /\ FromEntry("loadresource", n) = {} \/ FromEntry("missingresource", n) = {}

\* one batch held a 404 entry for a same-host content path, which gave
\* 'missingresource', and an entry without status, which gave 'loadresource'
C10_Witness ==
  \E m, n \in 1..Len(st.entries) :
    /\ st.entries[m].responseStatus = 404
    /\ st.entries[m].name = "https://site.example/nav.plain.html"
    /\ FromEntry("missingresource", m) # {}
    /\ st.entries[n].responseStatus = 0
    /\ FromEntry("loadresource", n) # {}

----------------------------------------------------------------------------
(* The visibility tracker, the mutation watcher and the form tracker *)

InitVisibility ==
  /\ enabled \in {ConfigOf({"viewblock", "viewmedia"}),
                  ConfigOf({"form", "viewblock"}),
                  ConfigOf({"click"})}
  /\ rum = [present |-> TRUE, isSelected |-> TRUE]
  /\ browser = AllBrowser
  /\ page = [referrer |-> "", utm |-> FALSE, martech |-> {},
             collectSameOrigin |-> TRUE]
  /\ InitDom({"loading", "loaded"}, {FALSE}, {"visible"})

NextVisibility ==
  \/ InitEnhancer
  \/ Scroll
  \/ IntersectionEntries
  \/ SetBlockStatus
  \/ MutationRecords
  \/ Submit

SpecVisibility == InitVisibility /\ [][NextVisibility]_vars

\* how many checkpoints of kind ck element e has caused
TimesSeen(ck, e) ==
  Cardinality({i \in 1..Len(Emitted) :
                 Emitted[i].checkpoint = ck /\ Emitted[i].el = e})

\* C1: for every element and each of viewblock and viewmedia, at most one
\* checkpoint of that kind is recorded for the element, whatever the
\* intersection changes and load-status mutations.
C1_AtMostOncePerTarget ==
  \A e \in Blocks \cup Media, ck \in {"viewblock", "viewmedia"} :
    TimesSeen(ck, e) <= 1

----------------------------------------------------------------------------
(* Every tracker under the configurations that enable no kind or a single *)
(* kind, with the DOM conditions of all kinds occurring                     *)

InitConfig ==
  /\ enabled \in {<<>>} \cup {ConfigOf({k}) : k \in KindSet}
  /\ rum = [present |-> TRUE, isSelected |-> TRUE]
  /\ browser = AllBrowser
  /\ page = [referrer |-> "https://search.example/", utm |-> TRUE,
             martech |-> {"consent", "paid", "email"},
             collectSameOrigin |-> TRUE]
  /\ InitDom({"loading"}, {FALSE}, {"visible"})

NextConfig ==
  \/ InitEnhancer
  \/ Click
  \/ Submit
  \/ NavigationEntries
  \/ VisibilityChange
  \/ PageHide
  \/ ResourceEntries
  \/ Scroll
  \/ IntersectionEntries
  \/ SetBlockStatus
  \/ MutationRecords
  \/ CwvTimer
  \/ CwvScriptLoad
  \/ CwvMeasurement

SpecConfig == InitConfig /\ [][NextConfig]_vars

\* the tracker kind whose tracker records checkpoints named ck; "host" for
\* the checkpoints of the host page
TrackerOf(ck) ==
  CASE ck \in {"click", "cwv", "viewblock", "viewmedia", "utm",
              "consent", "paid", "email"} -> ck
    [] ck = "formsubmit" -> "form"
    [] ck \in EntryNames \cup {"leave"} -> "enterleave"
    [] ck \in {"loadresource", "missingresource"} -> "loadresource"
    [] OTHER -> "host"

\* C6: no checkpoint of a tracker whose kind is not in
\* DEFAULT_TRACKING_EVENTS is ever recorded or dispatched, whatever clicks,
\* intersections, submits, load-status mutations, lifecycle signals and
\* resource entries occur.
C6_DisabledKindsSilent ==
  \A i \in 1..Len(Emitted) :
    TrackerOf(Emitted[i].checkpoint) \in {"host"} \cup {k \in KindSet : Includes(k)}

\* only form tracking is enabled: it attached the mutation watcher, a batch
\* for the loaded block was handled and the block is in view, a submit was
\* dispatched
C6_Witness ==
  /\ enabled = <<"form">>
  /\ st.rescanned
  /\ st.records = <<>>
  /\ dom.blockStatus["b1"] = "loaded"
  /\ Intersecting("b1") /\ Intersecting("m1")
  /\ dom.visibilityState = "hidden"
  /\ \E i \in 1..Len(st.dispatched) : st.dispatched[i].checkpoint = "formsubmit"

----------------------------------------------------------------------------
(* End to end: blocks that load once, with viewblock tracking enabled *)

InitViewBlock ==
  /\ enabled \in {ConfigOf({"viewblock"}), ConfigOf({"viewblock", "viewmedia"})}
  /\ rum = [present |-> TRUE, isSelected |-> TRUE]
  /\ browser = AllBrowser
  /\ page \in [referrer : {""}, utm : {FALSE}, martech : {{}},
               collectSameOrigin : BOOLEAN]
  /\ InitDom({"loading"}, {FALSE}, {"visible"})

NextViewBlock ==
  \/ InitEnhancer
  \/ Scroll
  \/ IntersectionEntries
  \/ BlockLoads
  \/ MutationRecords

SpecViewBlock == InitViewBlock /\ [][NextViewBlock]_vars

\* the 'viewblock' checkpoints dispatched for block b, and their beacons
ViewBlocksOf(b) ==
  SelectSeq(st.dispatched, LAMBDA c : c.checkpoint = "viewblock" /\ c.el = b)
ViewBlockBeacons ==
  SelectSeq(st.beacons, LAMBDA c : c.checkpoint = "viewblock")
\* some observer for 'viewblock' still watches b
Watched(b) ==
  \E i \in 1..Len(st.observers) :
    st.observers[i].checkpoint = "viewblock" /\ b \in DOMAIN st.observers[i].watch

\* C11: with viewblock enabled, sampling positive and the dispatcher
\* installed, a block whose load status becomes 'loaded' gives exactly one
\* 'viewblock' checkpoint once it has been found at least 25% in view: it is
\* dispatched and sent with the block's target and source, and scrolling the
\* block out and in again never gives another.
C11_OneViewBlockPerLoad ==
  \A b \in Blocks :
    /\ Len(ViewBlocksOf(b)) <= 1
    /\ Len(ViewBlockBeacons) = Len(ViewBlocksOf(b))
    /\ \A i \in 1..Len(ViewBlocksOf(b)) :
         /\ ViewBlocksOf(b)[i].target = targetSelector(b)
         /\ ViewBlocksOf(b)[i].source = sourceSelector(b)
    /\ (pc = "done" /\ dom.blockStatus[b] = "loaded" /\ st.records = <<>>
          /\ ~Watched(b)) => Len(ViewBlocksOf(b)) = 1
    /\ Watched(b) => Len(ViewBlocksOf(b)) = 0

\* the block loaded after the dispatcher was installed, its mutation batch
\* re-armed the tracker, it fired once and has since been scrolled out
C11_Witness ==
  /\ Installed
  /\ st.rescanned
  /\ Len(ViewBlocksOf("b1")) = 1
  /\ ViewBlocksOf("b1")[1].t >= st.installedAt
  /\ dom.ratio["b1"] = 0

----------------------------------------------------------------------------
(* The shared block-mutation observer *)

UsesMutationObserver ==
  Includes("form") \/ Includes("viewblock") \/ Includes("viewmedia")

\* C12: mutationObserver.observe is called at most once in a page's lifetime,
\* however many trackers activate and however often they are re-armed, and
\* only by the activation of form, viewblock or viewmedia tracking: never
\* before the enhancer's load and never when none of the three is enabled.
C12_MutationObserverAttachedOnce ==
  /\ st.moObserveCalls <= 1
  /\ st.moActive <=> st.moObserveCalls = 1
  /\ st.moObserveCalls = 1 => pc = "done" /\ UsesMutationObserver
  /\ ~UsesMutationObserver => st.records = <<>>

\* two trackers activated and one was re-armed by a mutation batch, with the
\* observer attached once
C12_Witness ==
  /\ st.moObserveCalls = 1
  /\ Includes("viewblock") /\ Includes("viewmedia")
  /\ st.rescanned
  /\ Len(st.observers) >= 2

----------------------------------------------------------------------------
(* Errors inside tracker callbacks *)

InitCallbacks ==
  /\ enabled \in {ConfigOf({"enterleave"}), ConfigOf({"click", "enterleave"})}
  /\ rum = [present |-> TRUE, isSelected |-> TRUE]
  /\ browser = AllBrowser
  /\ page \in [referrer : AnyReferrer, utm : {FALSE}, martech : {{}},
               collectSameOrigin : {TRUE}]
  /\ InitDom({"loading"}, {FALSE}, {"visible"})

NextCallbacks ==
  \/ InitEnhancer
  \/ NavigationEntries
  \/ VisibilityChange
  \/ PageHide
  \/ Click

SpecCallbacks == InitCallbacks /\ [][NextCallbacks]_vars

\* C13: no tracker callback lets an error escape to the host page: whatever
\* the referrer string, every delivered event's callback returns normally.
C13_NoErrorEscapes == ~st.escaped

----------------------------------------------------------------------------
(* Errors during the enhancer's load *)

\* checkpoints that only a registered listener of a tracker records
ListenerCheckpoints == {"click", "leave", "formsubmit"}

\* C14: when initEnhancer ends in an initialization error (the collector
\* object absent, or a tracker's activation raising), nothing propagates and
\* the instrumentation is disabled: from then on no tracker records a
\* checkpoint and no beacon is sent.
C14_DisabledAfterInitError ==
  (st.initError \/ (pc = "done" /\ ~rum.present)) =>
    /\ Named(ListenerCheckpoints) = <<>>
    /\ st.beacons = <<>>
    /\ ~st.threw /\ ~st.escaped

----------------------------------------------------------------------------
(* Batches of resource entries *)

\* the entry passes the three filters of the 'loadresource' chain
QualifiesLoad(e) ==
  /\ SuccessStatus(e)
  /\ ValidURL(e.name)
  /\ LocationHostname = HostnameOf(e.name)
  /\ PathMatches(e.name)

\* C15: an entry whose name does not parse as a URL does not abort its batch:
\* every well-formed entry delivered to the resource callback has given the
\* checkpoint it qualifies for, 'loadresource' or 'missingresource',
\* wherever a malformed entry stood in the same batch.
C15_MalformedEntryDoesNotAbort ==
  \A n \in 1..Len(st.entries) :
    LET e == st.entries[n]
    IN  /\ QualifiesLoad(e) => FromEntry("loadresource", n) # {}
        /\ (MissingStatus(e) /\ ValidURL(e.name)) =>
             FromEntry("missingresource", n) # {}

\* the positions of Emitted that hold a checkpoint of the resource tracker
ResourcePositions ==
  {i \in 1..Len(Emitted) :
     Emitted[i].checkpoint \in {"loadresource", "missingresource"}}
SameBatch(i, j) ==
  st.batchOf[Emitted[i].entry] = st.batchOf[Emitted[j].entry]

\* C16 as stated: of two entries of one batch that both give a checkpoint,
\* 'loadresource' or 'missingresource', the earlier entry's checkpoint is
\* emitted first.
C16_Original ==
  \A i, j \in ResourcePositions :
    (SameBatch(i, j) /\ Emitted[i].entry < Emitted[j].entry) => i < j

\* C16 amended: of two entries of one batch that give checkpoints of the same
\* kind, the earlier entry's checkpoint is emitted first; and every
\* 'loadresource' of a batch is emitted before every 'missingresource' of
\* that batch, whatever the order of their entries.
C16_BatchOrderPerKind ==
  \A i, j \in ResourcePositions :
    SameBatch(i, j) =>
      /\ (Emitted[i].checkpoint = Emitted[j].checkpoint
            /\ Emitted[i].entry < Emitted[j].entry) => i < j
      /\ (Emitted[i].checkpoint = "loadresource"
            /\ Emitted[j].checkpoint = "missingresource") => i < j

\* one batch held a 404 entry followed by a qualifying entry: the second
\* entry's 'loadresource' was emitted before the first entry's
\* 'missingresource'
C16_Witness ==
  \E i, j \in ResourcePositions :
    /\ SameBatch(i, j)
    /\ Emitted[i].checkpoint = "loadresource"
    /\ Emitted[j].checkpoint = "missingresource"
    /\ Emitted[j].entry < Emitted[i].entry
    /\ i < j

----------------------------------------------------------------------------
(* The transport *)

\* C17: every checkpoint is sent at most once and only by the dispatcher:
\* while sampled, the beacons sent are, one for one and in order, the
\* checkpoints handed to trackCheckpoint, so their numbers are equal and no
\* checkpoint is sent twice; a checkpoint still in the queue has no beacon.
C17_OneBeaconPerDispatch ==
  /\ Len(st.beacons) <= Len(st.dispatched)
  /\ rum.isSelected =>
       /\ Len(st.beacons) = Len(st.dispatched)
       /\ \A i \in 1..Len(st.beacons) :
            /\ st.beacons[i].checkpoint = st.dispatched[i].checkpoint
            /\ st.beacons[i].t = st.dispatched[i].t
  /\ \A i, j \in 1..Len(st.beacons) :
       st.beacons[i].t = st.beacons[j].t => i = j
  /\ \A i \in 1..Len(st.beacons), k \in 1..Len(st.queue) :
       st.beacons[i].t # st.queue[k].t

\* sampled: a drained checkpoint and a live click have one beacon each
C17_Witness ==
  /\ rum.isSelected
  /\ Len(st.beacons) >= 2
  /\ \E i, j \in 1..Len(st.beacons) :
       /\ st.beacons[i].t < st.installedAt
       /\ st.beacons[j].t >= st.installedAt
       /\ st.beacons[j].checkpoint = "click"

----------------------------------------------------------------------------
(* The web-vitals adapter *)

InitCWV ==
  /\ enabled \in {ConfigOf({"cwv"}), ConfigOf({"click", "cwv"})}
  /\ rum \in [present : {TRUE}, isSelected : BOOLEAN]
  /\ browser \in {[AllBrowser EXCEPT !.webVitals = w] : w \in WebVitalsBuilds}
  /\ page = [referrer |-> "", utm |-> FALSE, martech |-> {},
             collectSameOrigin |-> TRUE]
  /\ InitDom({"loading"}, BOOLEAN, {"visible"})

NextCWV ==
  \/ HostSampleRUM
  \/ InitEnhancer
  \/ CwvTimer
  \/ CwvScriptLoad
  \/ CwvMeasurement

SpecCWV == InitCWV /\ [][NextCWV]_vars

\* C18: the adapter records exactly one 'cwv' checkpoint per measurement the
\* metrics library reports, with exactly one metric in its cwv map; none is
\* recorded before the deferral timer has fired and the injected script has
\* loaded; and when the page already carries the script as the timer fires,
\* nothing is injected and no metric callback is registered.  A callback is
\* registered only for the metrics the loaded library offers.
C18_OneCwvPerMeasurement ==
  /\ Len(Named({"cwv"})) = st.measured
  /\ \A i \in 1..Len(Emitted) :
       IF Emitted[i].checkpoint = "cwv"
         THEN Cardinality(Emitted[i].cwv) = 1
         ELSE Emitted[i].cwv = {}
  /\ (st.measured > 0 \/ st.metrics # {}) =>
       (st.cwv = "reporting" /\ "cwvTimer" \notin st.listeners /\ Installed)
  /\ dom.cwvScript => (st.cwv = "idle" /\ st.metrics = {} /\ st.measured = 0)
  /\ st.metrics \subseteq browser.webVitals.fns

\* the timer fired, the script loaded, and two measurements of different
\* metrics, one of them LCP with an element, gave one checkpoint each
C18_Witness ==
  /\ st.measured = 2
  /\ \E i, j \in 1..Len(Emitted) :
       /\ Emitted[i].cwv = {"CLS"}
       /\ Emitted[j].cwv = {"LCP"}
       /\ Emitted[j].target = targetSelector("m1")

----------------------------------------------------------------------------
(* Form tracking under re-scanning *)

\* C19: form tracking is idempotent under re-scanning: after the body scan
\* and any number of re-scans of the form's block, the form carries exactly
\* one submit listener, and every submit of a tracked form has recorded
\* exactly one 'formsubmit' checkpoint.
C19_OneSubmitListenerPerForm ==
  /\ \A f \in Forms :
       /\ Len(st.formListeners[f]) <= 1
       /\ (pc = "done" /\ Includes("form")) => Len(st.formListeners[f]) = 1
  /\ Len(Named({"formsubmit"})) = st.submits

\* the form's block was re-scanned after a mutation, and the form has been
\* submitted twice since
C19_Witness ==
  /\ Includes("form")
  /\ st.rescanned
  /\ st.submits = 2
  /\ Len(st.formListeners["f1"]) = 1

----------------------------------------------------------------------------
(* Order across the installation of the dispatcher *)

\* C20: delivery order equals detection order across the install boundary:
\* every checkpoint recorded before the dispatcher was installed is
\* dispatched before every checkpoint recorded after, and no checkpoint
\* waits in the queue while a younger one has been dispatched.
C20_QueuedBeforeLive ==
  /\ \A i, j \in 1..Len(st.dispatched) :
       (st.dispatched[i].t < st.installedAt
          /\ st.dispatched[j].t >= st.installedAt) => i < j
  /\ \A i \in 1..Len(st.dispatched), k \in 1..Len(st.queue) :
       st.dispatched[i].t < st.queue[k].t
  /\ \A k \in 1..Len(st.queue) : Installed => st.queue[k].t >= st.installedAt

\* a host checkpoint and an activation-time checkpoint were queued and
\* drained, and a click recorded after the installation follows them
C20_Witness ==
  /\ Installed
  /\ Len(st.dispatched) = 3
  /\ st.dispatched[1].checkpoint \in HostCheckpoints
  /\ st.dispatched[2].checkpoint = "utm"
  /\ st.dispatched[2].t < st.installedAt
  /\ st.dispatched[3].checkpoint = "click"
  /\ st.dispatched[3].t >= st.installedAt

====
